---- MODULE Spec2Model ----
(***************************************************************************)
(* A model of wotw_seedgen_stats::stats (src/wotw_seedgen_stats/src/lib.rs)*)
(* and of Stats::csv / Stats::title.                                       *)
(*                                                                         *)
(* stats() cleans the seed storage when asked to, builds the seed corpus   *)
(* (Seeds::new), folds every seed into one accumulator per analyzer chain  *)
(* and returns one Stats per chain.  seed_storage.rs, handle_errors.rs,    *)
(* files.rs and analyzers.rs are not part of the sources at hand: Seeds,   *)
(* the FileAccess store and the Analyzer implementations are modelled from *)
(* the written design (spec.md, sections 4.1, 4.2, 6 and 7).               *)
(*                                                                         *)
(* A label (a Rust String) is a sequence of one-character strings, so that *)
(* str::parse::<u32> and the byte order of String can be computed.         *)
(*                                                                         *)
(* The last part models three functions of the command line                *)
(* (src/wotw_seedgen_cli/src/main.rs): resolve_world_opts,                 *)
(* resolve_nonduplicate_world_opts and create_seedfile.                    *)
(***************************************************************************)
EXTENDS Integers, Sequences, FiniteSets, TLC

VARIABLES
    pc,        \* position inside stats(): idle, clean, new, generate, aggregate, done
    args,      \* the StatsArgs of the running call
    store,     \* the persistent seed storage of the settings (a sequence of seeds)
    seeds,     \* the corpus Seeds::new has assembled so far
    errors,    \* Seeds::new: failed generation attempts so far
    messages,  \* Seeds::new: retained error messages
    data,      \* stats(): one accumulator per analyzer chain
    consumed,  \* stats(): how many seeds the for loop has taken
    result,    \* what stats() returned
    csvOut,    \* the last Stats::csv call: its sorted rows and its text,
               \* and the text of the last Stats::title call
    outcomes,  \* history: what the generator returned in this call, in order
    store0,    \* history: the store when the call started
    cache,     \* history: Some(the store as Seeds::new read it), None before
    prior,     \* history: Some(corpus of the previous call) if it returned Ok
    call,          \* the function of main.rs that is running, "none" if none
    cpc,           \* position inside that function
    argv,          \* the values given to one flag, as typed, in order
    world_opts,    \* the parsed flag values: Vec<WorldOpt<T>>
    worlds,        \* the number of worlds
    world_values,  \* resolve_*world_opts: what each world has got so far
    current_world, \* resolve_*world_opts: Option<usize>, the last world specifier
    taken,         \* resolve_*world_opts: how many options the for loop has taken
    path,          \* create_seedfile: the file name of the path asked for
    contents,      \* create_seedfile: the text to write
    files,         \* the files of the seed folder: file name -> contents
    parent,        \* whether the seed folder exists
    index,         \* create_seedfile: the counter put after the stem
    tried,         \* history: the file names create_seedfile tried to open
    files0,        \* history: the files of the seed folder when the call started
    returned       \* what the function of main.rs returned

statsVars == <<pc, args, store, seeds, errors, messages, data, consumed, result,
               csvOut, outcomes, store0, cache, prior>>

cliVars == <<call, cpc, argv, world_opts, worlds, world_values, current_world,
             taken, path, contents, files, parent, index, tried, files0, returned>>

vars == <<statsVars, cliVars>>

----------------------------------------------------------------------------
(* Bounds of the model *)

MaxSample == 2
MaxTolerated == 1
MaxCached == 2

(* Program constants *)

DefaultErrorMessageLimit == 10

(* Option<T> *)
None == <<>>
Some(x) == <<x>>

(* Result<T, E> of the functions of main.rs *)
NoCliError == [kind |-> "none", index |-> 0, source |-> <<>>, prior_source |-> <<>>]
NotReturned == [kind |-> "none", value |-> <<>>, error |-> NoCliError]

(* No function of main.rs is running *)
CliIdle ==
    /\ call = "none"
    /\ cpc = "idle"
    /\ argv = <<>>
    /\ world_opts = <<>>
    /\ worlds = 0
    /\ world_values = <<>>
    /\ current_world = None
    /\ taken = 0
    /\ path = <<>>
    /\ contents = <<>>
    /\ files = <<>>
    /\ parent = FALSE
    /\ index = 0
    /\ tried = <<>>
    /\ files0 = <<>>
    /\ returned = NotReturned

Min(a, b) == IF a < b THEN a ELSE b
Max(a, b) == IF a > b THEN a ELSE b

----------------------------------------------------------------------------
(* Seeds and analyzers *)

Artifacts == {"s1", "s2"}

(* A failed generation attempt *)
GenError == "Err"

(* Labels, spelled out character by character *)
Str10 == <<"1", "0">>
Str2 == <<"2">>
StrApple == <<"a", "p", "p", "l", "e">>
StrTrees == <<"t", "r", "e", "e", "s">>
StrWisps == <<"w", "i", "s", "p", "s">>
StrQuests == <<"q", "u", "e", "s", "t", "s">>

StrGoal == <<"G", "o", "a", "l">>
StrCount == <<"C", "o", "u", "n", "t">>
StrZone == <<"Z", "o", "n", "e">>

Analyzers == {"Goal", "Count", "Zone"}

(* Analyzer::title *)
Title(analyzer) ==
    CASE analyzer = "Goal" -> StrGoal
      [] analyzer = "Count" -> StrCount
      [] analyzer = "Zone" -> StrZone

(* Analyzer::analyze: the labels of a seed along one axis.  Goal and Count  *)
(* give one label for every seed, Zone gives several, and repeats one.      *)
Analyze(analyzer, seed) ==
    CASE analyzer = "Goal" -> IF seed = "s1" THEN <<StrTrees>>
                              ELSE IF seed = "s3" THEN <<StrQuests>>
                              ELSE <<StrWisps>>
      [] analyzer = "Count" -> IF seed = "s1" THEN <<Str10>> ELSE <<Str2>>
      [] analyzer = "Zone" -> IF seed = "s1" THEN <<Str10, Str2, StrApple>>
                                             ELSE <<Str2, Str2>>

(* The values of StatsArgs::analyzers the model draws from *)
ChainConfigs ==
    { <<>>,
      << <<"Goal">>, <<"Zone", "Goal">> >>,
      << <<"Zone", "Zone">>, <<"Goal", "Count">>, <<"Zone">> >> }

----------------------------------------------------------------------------
(* The aggregation of one seed: lib.rs 128-134 *)

RECURSIVE Concat(_)
Concat(ss) == IF ss = <<>> THEN <<>> ELSE Head(ss) \o Concat(Tail(ss))

(* MultiCartesianProduct as it would be if the lists were zipped: the i-th  *)
(* label of every analyzer together                                         *)
ZipLists(lists) ==
    IF lists = <<>> THEN << <<>> >>
    ELSE LET shortest == CHOOSE n \in {Len(lists[j]) : j \in 1..Len(lists)} :
                              \A j \in 1..Len(lists) : n <= Len(lists[j])
         IN [i \in 1..shortest |-> [j \in 1..Len(lists) |-> lists[j][i]]]

(* MultiCartesianProduct as it would be if a key took its labels from the   *)
(* last analyzer first                                                      *)
RECURSIVE ProductReversed(_)
ProductReversed(lists) ==
    IF lists = <<>> THEN << <<>> >>
    ELSE LET rest == ProductReversed(Tail(lists))
             first == Head(lists)
         IN Concat([i \in 1..Len(first) |->
                      [j \in 1..Len(rest) |-> rest[j] \o <<first[i]>>]])

(* itertools multi_cartesian_product over the label lists of a non-empty    *)
(* chain: every combination of one element per list, the last list varying *)
(* fastest.                                                                 *)
RECURSIVE MultiCartesianProduct(_)
MultiCartesianProduct(lists) ==
    IF lists = <<>> THEN << <<>> >>
    ELSE LET rest == MultiCartesianProduct(Tail(lists))
             first == Head(lists)
         IN Concat([i \in 1..Len(first) |->
                      [j \in 1..Len(rest) |-> <<first[i]>> \o rest[j]]])

(* chained_analyzers.iter().map(|a| a.analyze(&seed)).multi_cartesian_product() *)
AnalyzeChain(chain, seed) ==
    MultiCartesianProduct([i \in 1..Len(chain) |-> Analyze(chain[i], seed)])

(* EntryIncr as it would be if a key already present were set back to 1 *)
EntryReset(map, key) ==
    IF key \in DOMAIN map THEN [map EXCEPT ![key] = 1] ELSE map @@ (key :> 1)

(* EntryIncr as it would be if a new key started a new map *)
EntryFresh(map, key) ==
    IF key \in DOMAIN map THEN [map EXCEPT ![key] = @ + 1] ELSE (key :> 1)

(* *data.entry(key).or_default() += 1 *)
EntryIncr(map, key) ==
    IF key \in DOMAIN map THEN [map EXCEPT ![key] = @ + 1] ELSE map @@ (key :> 1)

(* ForEachKey as it would be if a key that comes twice counted once *)
RECURSIVE ForEachDistinctKey(_, _)
ForEachDistinctKey(map, keys) ==
    IF keys = <<>> THEN map
    ELSE LET key == Head(keys)
             later == SelectSeq(Tail(keys), LAMBDA k : k # key)
         IN ForEachDistinctKey(EntryIncr(map, key), later)

(* .for_each(|key| ...) over a sequence of keys *)
RECURSIVE ForEachKey(_, _)
ForEachKey(map, keys) ==
    IF keys = <<>> THEN map ELSE ForEachKey(EntryIncr(map, Head(keys)), Tail(keys))

(* AnalyzeSeedInto as it would be if the chains shared one accumulator:     *)
(* every chain adds the keys of all chains up to itself                     *)
AnalyzeSeedShared(accs, chains, seed) ==
    [i \in 1..Min(Len(accs), Len(chains)) |->
        ForEachKey(accs[i],
                   Concat([j \in 1..i |-> AnalyzeChain(chains[j], seed)]))]

(* The body of the loop over the seeds: every accumulator is zipped with    *)
(* its chain                                                                *)
AnalyzeSeedInto(accs, chains, seed) ==
    [i \in 1..Min(Len(accs), Len(chains)) |->
        ForEachKey(accs[i], AnalyzeChain(chains[i], seed))]

EmptyMap == [k \in {} |-> 0]

----------------------------------------------------------------------------
(* Strings: bytes, order and parsing *)

(* The printable ASCII characters, from the space (32) to the tilde (126);  *)
(* three that cannot be written here are spelled by name                    *)
Ascii ==
    <<" ", "!", "QUOTE", "#", "$", "%", "&", "'", "(", ")", "*", "+",
       ",", "-", ".", "/", "0", "1", "2", "3", "4", "5", "6", "7",
       "8", "9", ":", ";", "<", "=", ">", "?", "@", "A", "B", "C",
       "D", "E", "F", "G", "H", "I", "J", "K", "L", "M", "N", "O",
       "P", "Q", "R", "S", "T", "U", "V", "W", "X", "Y", "Z", "[",
       "BACKSLASH", "]", "^", "_", "GRAVE", "a", "b", "c", "d", "e", "f", "g",
       "h", "i", "j", "k", "l", "m", "n", "o", "p", "q", "r", "s",
       "t", "u", "v", "w", "x", "y", "z", "{", "|", "}", "~">>

(* The byte of a character *)
Code(c) == 31 + (CHOOSE i \in 1..Len(Ascii) : Ascii[i] = c)

Sign(n) == IF n < 0 THEN -1 ELSE IF n > 0 THEN 1 ELSE 0

(* Ord for String: byte by byte, a proper prefix first.  -1, 0 or 1. *)
RECURSIVE CmpString(_, _)
CmpString(a, b) ==
    IF a = <<>> THEN (IF b = <<>> THEN 0 ELSE -1)
    ELSE IF b = <<>> THEN 1
    ELSE IF Head(a) # Head(b) THEN Sign(Code(Head(a)) - Code(Head(b)))
    ELSE CmpString(Tail(a), Tail(b))

IsDigit(c) == Code(c) >= 48 /\ Code(c) <= 57

(* A u32 is kept as two 16 bit halves, [hi, lo], so that 2^32 - 1 fits *)
Half == 65536
U32Zero == [hi |-> 0, lo |-> 0]

(* checked_mul(10) then checked_add(digit); None on overflow *)
PushDigit(n, d) ==
    LET lo == n.lo * 10 + d
        hi == n.hi * 10 + (lo \div Half)
    IN IF hi >= Half THEN None ELSE Some([hi |-> hi, lo |-> lo % Half])

RECURSIVE ParseDigits(_, _)
ParseDigits(n, digits) ==
    IF digits = <<>> THEN Some(n)
    ELSE IF ~IsDigit(Head(digits)) THEN None
    ELSE LET next == PushDigit(n, Code(Head(digits)) - 48)
         IN IF next = None THEN None ELSE ParseDigits(next[1], Tail(digits))

(* str::parse::<u32>: an optional plus, then one or more decimal digits that *)
(* fit 32 bits.  No sign alone, no minus, no blanks.                          *)
ParseU32(s) ==
    IF s = <<>> THEN None
    ELSE IF Len(s) = 1 /\ Head(s) \in {"+", "-"} THEN None
    ELSE IF Head(s) = "+" THEN ParseDigits(U32Zero, Tail(s))
    ELSE ParseDigits(U32Zero, s)

CmpU32(m, n) ==
    IF m.hi # n.hi THEN Sign(m.hi - n.hi) ELSE Sign(m.lo - n.lo)

----------------------------------------------------------------------------
(* Stats::csv, lib.rs 59-91 *)

(* enum StringOrNumber { String(Rc<String>), Number(u32) }, lib.rs 64-69 *)
StringVariant == 0
NumberVariant == 1

(* key.parse::<u32>().map_or(String(key), Number), lib.rs 72-77 *)
ToStringOrNumber(label) ==
    LET parsed == ParseU32(label)
    IN IF parsed = None
       THEN [variant |-> StringVariant, string |-> label, number |-> U32Zero]
       ELSE [variant |-> NumberVariant, string |-> <<>>, number |-> parsed[1]]

(* CmpStringOrNumber as it would be if Number were declared before String *)
CmpNumberFirst(x, y) ==
    IF x.variant # y.variant THEN Sign(y.variant - x.variant)
    ELSE IF x.variant = StringVariant THEN CmpString(x.string, y.string)
    ELSE CmpU32(x.number, y.number)

(* #[derive(PartialOrd, Ord)]: the variants in the order they are declared, *)
(* then the value inside                                                    *)
CmpStringOrNumber(x, y) ==
    IF x.variant # y.variant THEN Sign(x.variant - y.variant)
    ELSE IF x.variant = StringVariant THEN CmpString(x.string, y.string)
    ELSE CmpU32(x.number, y.number)

(* The sort key of a row, lib.rs 70-79 *)
SortKey(keys) == [i \in 1..Len(keys) |-> ToStringOrNumber(keys[i])]

(* Ord for Vec: element by element, a proper prefix first *)
(* CmpVec as it would be if only the first labels were compared *)
CmpVecHead(u, v) ==
    IF u = <<>> THEN (IF v = <<>> THEN 0 ELSE -1)
    ELSE IF v = <<>> THEN 1
    ELSE CmpStringOrNumber(Head(u), Head(v))

RECURSIVE CmpVec(_, _)
CmpVec(u, v) ==
    IF u = <<>> THEN (IF v = <<>> THEN 0 ELSE -1)
    ELSE IF v = <<>> THEN 1
    ELSE LET c == CmpStringOrNumber(Head(u), Head(v))
         IN IF c # 0 THEN c ELSE CmpVec(Tail(u), Tail(v))

(* One row put into an already sorted sequence, behind the rows that do not *)
(* compare greater: the sort is stable                                      *)
RECURSIVE InsertSorted(_, _)
InsertSorted(sorted, row) ==
    IF sorted = <<>> THEN <<row>>
    ELSE IF CmpVec(SortKey(row), SortKey(Head(sorted))) < 0 THEN <<row>> \o sorted
    ELSE <<Head(sorted)>> \o InsertSorted(Tail(sorted), row)

(* data.sort_by_key(..) over the rows in the order the map yields them *)
(* SortByKey as it would be if the rows stayed as the map yields them *)
KeepOrder(rows) == rows

RECURSIVE SortByKey(_)
SortByKey(rows) ==
    IF rows = <<>> THEN <<>>
    ELSE InsertSorted(SortByKey(SubSeq(rows, 1, Len(rows) - 1)), rows[Len(rows)])

(* The decimal digits of a count, as Display writes a u32 *)
RECURSIVE Decimal(_)
Decimal(n) ==
    IF n < 10 THEN <<Ascii[n + 17]>> ELSE Decimal(n \div 10) \o <<Ascii[(n % 10) + 17]>>

(* join: the parts with the separator between them *)
RECURSIVE Join(_, _)
Join(parts, sep) ==
    IF parts = <<>> THEN <<>>
    ELSE IF Len(parts) = 1 THEN parts[1]
    ELSE parts[1] \o sep \o Join(Tail(parts), sep)

CommaSpace == <<",", " ">>
NewLine == <<"\n">>
CountHeader == <<",", " ", "C", "o", "u", "n", "t", "\n">>

(* keys.iter().join(", ") followed by ", {value}", lib.rs 82-86 *)
(* DataLine as it would be if the count came before the labels *)
DataLineCountFirst(keys, value) ==
    Decimal(value) \o CommaSpace \o Join(keys, CommaSpace)

DataLine(keys, value) == Join(keys, CommaSpace) \o CommaSpace \o Decimal(value)

(* The text of csv() when the map yields its rows in the order `iter` *)
CsvText(stats, iter) ==
    LET sorted == SortByKey(iter)
    IN Join(stats.analyzer_titles, CommaSpace) \o CountHeader
       \o Join([i \in 1..Len(sorted) |-> DataLine(sorted[i], stats.data[sorted[i]])],
               NewLine)

(* Stats::title as it would be with the separator of the csv header *)
StatsTitleComma(stats) == Join(stats.analyzer_titles, CommaSpace)

(* Stats::title, lib.rs 56-58 *)
StatsTitle(stats) == Join(stats.analyzer_titles, <<" ", "a", "n", "d", " ">>)

(* The orders in which a map may yield its rows *)
IterOrders(map) ==
    {iter \in [1..Cardinality(DOMAIN map) -> DOMAIN map] :
        \A i, j \in 1..Cardinality(DOMAIN map) : i # j => iter[i] # iter[j]}

----------------------------------------------------------------------------
(* Results *)

NoError == [kind |-> "none", messages |-> <<>>, count |-> 0]
NoResult == [kind |-> "none", stats |-> <<>>, error |-> NoError]
Ok(stats) == [kind |-> "Ok", stats |-> stats, error |-> NoError]
Err(error) == [kind |-> "Err", stats |-> <<>>, error |-> error]

(* A failure of FileAccess (clean_seeds, reading or writing a seed) *)
StoreError == [kind |-> "store", messages |-> <<>>, count |-> 0]
(* tolerated_errors exceeded: the retained messages and the failure count *)
Exhausted(msgs, count) == [kind |-> "exhausted", messages |-> msgs, count |-> count]

(* ErrorMessageLimit as it would be if no limit meant no messages *)
ErrorMessageLimitOrZero(a) ==
    IF a.error_message_limit = None THEN 0 ELSE a.error_message_limit[1]

(* error_message_limit.unwrap_or(10) *)
ErrorMessageLimit(a) ==
    IF a.error_message_limit = None THEN DefaultErrorMessageLimit
    ELSE a.error_message_limit[1]

(* No csv() call yet *)
NoCsv == [data |-> <<>>, csv |-> <<>>, title |-> <<>>]

NoArgs ==
    [sample_size |-> 0, tolerated_errors |-> 0, error_message_limit |-> None,
     overwrite_seed_storage |-> FALSE, analyzers |-> <<>>]

----------------------------------------------------------------------------
(* stats(), lib.rs 97-156 *)

(* Stats as it would be if the storage were cleaned whatever the flag says *)
StatsAlwaysClean(a) ==
    /\ pc = "idle"
    /\ args' = a
    /\ pc' = "clean"
    /\ seeds' = <<>>
    /\ errors' = 0
    /\ messages' = <<>>
    /\ data' = <<>>
    /\ consumed' = 0
    /\ result' = NoResult
    /\ csvOut' = NoCsv
    /\ outcomes' = <<>>
    /\ store0' = store
    /\ cache' = None
    /\ UNCHANGED <<store, prior, cliVars>>

(* The call: lib.rs 97-110 *)
(* Stats as it would be if overwrite_seed_storage were never looked at *)
StatsNeverClean(a) ==
    /\ pc = "idle"
    /\ args' = a
    /\ pc' = "new"
    /\ seeds' = <<>>
    /\ errors' = 0
    /\ messages' = <<>>
    /\ data' = <<>>
    /\ consumed' = 0
    /\ result' = NoResult
    /\ csvOut' = NoCsv
    /\ outcomes' = <<>>
    /\ store0' = store
    /\ cache' = None
    /\ UNCHANGED <<store, prior, cliVars>>

Stats(a) ==
    /\ pc = "idle"
    /\ args' = a
    /\ pc' = IF a.overwrite_seed_storage THEN "clean" ELSE "new"
    /\ seeds' = <<>>
    /\ errors' = 0
    /\ messages' = <<>>
    /\ data' = <<>>
    /\ consumed' = 0
    /\ result' = NoResult
    /\ csvOut' = NoCsv
    /\ outcomes' = <<>>
    /\ store0' = store
    /\ cache' = None
    /\ UNCHANGED <<store, prior, cliVars>>

(* A fatal error leaves stats() through `?` *)
(* Fail as it would be if the error were noted and the call went on *)
FailAndGoOn(error) ==
    /\ pc' = pc
    /\ result' = Err(error)

Fail(error) ==
    /\ pc' = "done"
    /\ result' = Err(error)

(* F::clean_seeds(&settings)?, lib.rs 110-113 *)
CleanSeeds ==
    /\ pc = "clean"
    /\ \/ /\ store' = <<>>
          /\ pc' = "new"
          /\ UNCHANGED result
       \/ /\ Fail(StoreError)
          /\ UNCHANGED store
    /\ UNCHANGED <<args, seeds, errors, messages, data, consumed, csvOut,
                   outcomes, store0, cache, prior, cliVars>>

(* ReadSeeds as it would be if every stored seed were taken *)
ReadSeedsAll ==
    /\ pc = "new"
    /\ \/ /\ seeds' = store
          /\ cache' = Some(store)
          /\ pc' = "generate"
          /\ UNCHANGED result
       \/ /\ Fail(StoreError)
          /\ UNCHANGED <<seeds, cache>>
    /\ UNCHANGED <<args, store, errors, messages, data, consumed, csvOut,
                   outcomes, store0, prior, cliVars>>

(* Seeds::new, step 1: up to sample_size stored seeds are reused *)
ReadSeeds ==
    /\ pc = "new"
    /\ \/ /\ seeds' = SubSeq(store, 1, Min(Len(store), args.sample_size))
          /\ cache' = Some(store)
          /\ pc' = "generate"
          /\ UNCHANGED result
       \/ /\ Fail(StoreError)
          /\ UNCHANGED <<seeds, cache>>
    /\ UNCHANGED <<args, store, errors, messages, data, consumed, csvOut,
                   outcomes, store0, prior, cliVars>>

(* GenerateOk as it would be if the seed were not written to the store *)
GenerateOkUnsaved(seed) ==
    /\ pc = "generate"
    /\ Len(seeds) < args.sample_size
    /\ outcomes' = Append(outcomes, seed)
    /\ seeds' = Append(seeds, seed)
    /\ UNCHANGED <<pc, result, store>>
    /\ UNCHANGED <<args, errors, messages, data, consumed, csvOut, store0,
                   cache, prior, cliVars>>

(* Seeds::new, step 2, the generator succeeds: the seed is written to the   *)
(* store at once and joins the corpus                                       *)
GenerateOk(seed) ==
    /\ pc = "generate"
    /\ Len(seeds) < args.sample_size
    /\ outcomes' = Append(outcomes, seed)
    /\ \/ /\ store' = Append(store, seed)
          /\ seeds' = Append(seeds, seed)
          /\ UNCHANGED <<pc, result>>
       \/ /\ Fail(StoreError)
          /\ UNCHANGED <<store, seeds>>
    /\ UNCHANGED <<args, errors, messages, data, consumed, csvOut, store0,
                   cache, prior, cliVars>>

(* GenerateErr as it would be if the budget check were >= *)
GenerateErrAtBudget ==
    /\ pc = "generate"
    /\ Len(seeds) < args.sample_size
    /\ outcomes' = Append(outcomes, GenError)
    /\ messages' = IF Len(messages) < ErrorMessageLimit(args)
                   THEN Append(messages, Len(outcomes) + 1)
                   ELSE messages
    /\ errors' = errors + 1
    /\ IF errors' >= args.tolerated_errors
       THEN Fail(Exhausted(messages', errors'))
       ELSE UNCHANGED <<pc, result>>
    /\ UNCHANGED <<args, store, seeds, data, consumed, csvOut, store0, cache,
                   prior, cliVars>>

(* GenerateErr as it would be if one more failure than the budget went by   *)
GenerateErrLate ==
    /\ pc = "generate"
    /\ Len(seeds) < args.sample_size
    /\ outcomes' = Append(outcomes, GenError)
    /\ messages' = IF Len(messages) < ErrorMessageLimit(args)
                   THEN Append(messages, Len(outcomes) + 1)
                   ELSE messages
    /\ errors' = errors + 1
    /\ IF errors' > args.tolerated_errors + 1
       THEN Fail(Exhausted(messages', errors'))
       ELSE UNCHANGED <<pc, result>>
    /\ UNCHANGED <<args, store, seeds, data, consumed, csvOut, store0, cache,
                   prior, cliVars>>

(* Seeds::new, steps 2 and 3, the generator fails: the message is kept      *)
(* while there is room, the failure is counted, and the budget is checked   *)
(* before the next attempt.  A message is named by the number of the call.  *)
GenerateErr ==
    /\ pc = "generate"
    /\ Len(seeds) < args.sample_size
    /\ outcomes' = Append(outcomes, GenError)
    /\ messages' = IF Len(messages) < ErrorMessageLimit(args)
                   THEN Append(messages, Len(outcomes) + 1)
                   ELSE messages
    /\ errors' = errors + 1
    /\ IF errors' > args.tolerated_errors
       THEN Fail(Exhausted(messages', errors'))
       ELSE UNCHANGED <<pc, result>>
    /\ UNCHANGED <<args, store, seeds, data, consumed, csvOut, store0, cache,
                   prior, cliVars>>

(* Seeds::new returns the corpus; one empty accumulator per chain,          *)
(* lib.rs 115-125                                                           *)
SeedsReady ==
    /\ pc = "generate"
    /\ Len(seeds) = args.sample_size
    /\ pc' = "aggregate"
    /\ data' = [i \in 1..Len(args.analyzers) |-> EmptyMap]
    /\ consumed' = 0
    /\ UNCHANGED <<args, store, seeds, errors, messages, result, csvOut,
                   outcomes, store0, cache, prior, cliVars>>

(* One turn of `for seed in seeds`, lib.rs 127-135 *)
AnalyzeSeed ==
    /\ pc = "aggregate"
    /\ consumed < Len(seeds)
    /\ consumed' = consumed + 1
    /\ data' = AnalyzeSeedInto(data, args.analyzers, seeds[consumed + 1])
    /\ UNCHANGED <<pc, args, store, seeds, errors, messages, result, csvOut,
                   outcomes, store0, cache, prior, cliVars>>

(* The Stats of every chain: data zipped with the chains, lib.rs 137-150 *)
MakeStats(accs, chains) ==
    [i \in 1..Min(Len(accs), Len(chains)) |->
        [analyzer_titles |-> [j \in 1..Len(chains[i]) |-> Title(chains[i][j])],
         data |-> accs[i]]]

(* Return as it would be if the loop could be left before the corpus is     *)
(* used up                                                                  *)
ReturnEarly ==
    /\ pc = "aggregate"
    /\ pc' = "done"
    /\ result' = Ok(MakeStats(data, args.analyzers))
    /\ UNCHANGED <<args, store, seeds, errors, messages, data, consumed, csvOut,
                   outcomes, store0, cache, prior, cliVars>>

(* The loop is over: Ok(stats), lib.rs 137-155 *)
Return ==
    /\ pc = "aggregate"
    /\ consumed = Len(seeds)
    /\ pc' = "done"
    /\ result' = Ok(MakeStats(data, args.analyzers))
    /\ UNCHANGED <<args, store, seeds, errors, messages, data, consumed, csvOut,
                   outcomes, store0, cache, prior, cliVars>>

(* stats.title() on the i-th Stats returned, lib.rs 56-58 *)
TitleCall(i) ==
    /\ pc = "done"
    /\ result.kind = "Ok"
    /\ csvOut' = [csvOut EXCEPT !.title = StatsTitle(result.stats[i])]
    /\ UNCHANGED <<pc, args, store, seeds, errors, messages, data, consumed,
                   result, outcomes, store0, cache, prior, cliVars>>

(* stats.csv() on the i-th Stats returned, the map yielding its rows in the  *)
(* order iter, lib.rs 59-91                                                 *)
Csv(i, iter) ==
    /\ pc = "done"
    /\ result.kind = "Ok"
    /\ csvOut' = [csvOut EXCEPT !.data = SortByKey(iter),
                                !.csv = CsvText(result.stats[i], iter)]
    /\ UNCHANGED <<pc, args, store, seeds, errors, messages, data, consumed,
                   result, outcomes, store0, cache, prior, cliVars>>

(* stats() has returned and the caller lets go of the result; only the     *)
(* store outlives the call                                                  *)
Forget ==
    /\ pc = "done"
    /\ pc' = "idle"
    /\ prior' = IF result.kind = "Ok" THEN Some(seeds) ELSE None
    /\ args' = NoArgs
    /\ seeds' = <<>>
    /\ errors' = 0
    /\ messages' = <<>>
    /\ data' = <<>>
    /\ consumed' = 0
    /\ result' = NoResult
    /\ csvOut' = NoCsv
    /\ outcomes' = <<>>
    /\ store0' = store
    /\ cache' = None
    /\ UNCHANGED <<store, cliVars>>

----------------------------------------------------------------------------
(* Specification *)

(* The arguments a call is made with *)
StatsArgsSet ==
    [sample_size : 0..MaxSample,
     tolerated_errors : 0..MaxTolerated,
     error_message_limit : {None, Some(0), Some(MaxTolerated)},
     overwrite_seed_storage : BOOLEAN,
     analyzers : ChainConfigs]

RECURSIVE SeqsUpTo(_, _)
SeqsUpTo(S, n) ==
    IF n = 0 THEN {<<>>}
    ELSE LET shorter == SeqsUpTo(S, n - 1)
         IN shorter \cup {Append(q, x) : q \in shorter, x \in S}

(* One call of stats(), the seed storage holding what earlier calls left *)
Init ==
    /\ pc = "idle"
    /\ args = NoArgs
    /\ store \in SeqsUpTo(Artifacts, MaxCached)
    /\ seeds = <<>>
    /\ errors = 0
    /\ messages = <<>>
    /\ data = <<>>
    /\ consumed = 0
    /\ result = NoResult
    /\ csvOut = NoCsv
    /\ outcomes = <<>>
    /\ store0 = store
    /\ cache = None
    /\ prior = None
    /\ CliIdle

Next ==
    \/ \E a \in StatsArgsSet : Stats(a)
    \/ CleanSeeds
    \/ ReadSeeds
    \/ \E seed \in Artifacts : GenerateOk(seed)
    \/ GenerateErr
    \/ SeedsReady
    \/ AnalyzeSeed
    \/ Return

Spec == Init /\ [][Next]_vars

----------------------------------------------------------------------------
(* Call after call on a seed storage that starts out empty *)

RerunArgsSet ==
    [sample_size : 0..MaxSample,
     tolerated_errors : 0..MaxTolerated,
     error_message_limit : {None},
     overwrite_seed_storage : BOOLEAN,
     analyzers : {<< <<"Goal">>, <<"Zone", "Goal">> >>}]

InitRerun ==
    /\ pc = "idle"
    /\ args = NoArgs
    /\ store = <<>>
    /\ seeds = <<>>
    /\ errors = 0
    /\ messages = <<>>
    /\ data = <<>>
    /\ consumed = 0
    /\ result = NoResult
    /\ csvOut = NoCsv
    /\ outcomes = <<>>
    /\ store0 = store
    /\ cache = None
    /\ prior = None
    /\ CliIdle

NextRerun ==
    \/ \E a \in RerunArgsSet : Stats(a)
    \/ CleanSeeds
    \/ ReadSeeds
    \/ \E seed \in Artifacts : GenerateOk(seed)
    \/ GenerateErr
    \/ SeedsReady
    \/ AnalyzeSeed
    \/ Return
    \/ Forget

SpecRerun == InitRerun /\ [][NextRerun]_vars

----------------------------------------------------------------------------
(* One call with a failure budget around the default message limit *)

MaxBudget == 11

BudgetArgsSet ==
    [sample_size : 1..2,
     tolerated_errors : 0..MaxBudget,
     error_message_limit : {None, Some(0), Some(1), Some(MaxBudget)},
     overwrite_seed_storage : {FALSE},
     analyzers : {<< <<"Goal">> >>}]

NextBudget ==
    \/ \E a \in BudgetArgsSet : Stats(a)
    \/ ReadSeeds
    \/ \E seed \in Artifacts : GenerateOk(seed)
    \/ GenerateErr
    \/ SeedsReady
    \/ AnalyzeSeed
    \/ Return

SpecBudget == Init /\ [][NextBudget]_vars

----------------------------------------------------------------------------
(* Stats::csv on its own: any Stats value with up to MaxKeys rows *)

MaxKeys == 3

StrA == <<"A">>
StrB == <<"B">>
Str02 == <<"0", "2">>
StrPlus2 == <<"+", "2">>
StrMinus1 == <<"-", "1">>
StrB2 == <<"b", "2">>
StrU32Max == <<"4", "2", "9", "4", "9", "6", "7", "2", "9", "5">>
StrU32Over == <<"4", "2", "9", "4", "9", "6", "7", "2", "9", "6">>

CsvLabels == {Str10, Str2, StrApple, Str02, StrPlus2, StrMinus1, StrB2,
              StrU32Max, StrU32Over, <<>>}
CsvLabelsPair == {Str10, Str2, StrApple}

CsvKeys(width) ==
    IF width = 1 THEN {<<l>> : l \in CsvLabels}
    ELSE {<<l, m>> : l \in CsvLabelsPair, m \in CsvLabelsPair}

(* The counts of a report: all 1, or a count that differs from row to row *)
CsvCounts(K) == {[k \in K |-> 1], [k \in K |-> 1 + 3 * Len(k[1])]}

CsvStats ==
    UNION {
      UNION { { [analyzer_titles |-> SubSeq(<<StrA, StrB>>, 1, width), data |-> d]
                : d \in CsvCounts(K) }
              : K \in {K \in SUBSET CsvKeys(width) : Cardinality(K) <= MaxKeys} }
      : width \in 1..2 }

InitCsv ==
    /\ pc = "done"
    /\ args = NoArgs
    /\ store = <<>>
    /\ seeds = <<>>
    /\ errors = 0
    /\ messages = <<>>
    /\ data = <<>>
    /\ consumed = 0
    /\ result \in {Ok(<<stats>>) : stats \in CsvStats}
    /\ csvOut = NoCsv
    /\ outcomes = <<>>
    /\ store0 = <<>>
    /\ cache = None
    /\ prior = None
    /\ CliIdle

NextCsv ==
    \E i \in 1..Len(result.stats) : \E iter \in IterOrders(result.stats[i].data) :
        Csv(i, iter)

SpecCsv == InitCsv /\ [][NextCsv]_vars

----------------------------------------------------------------------------
(* Properties *)

(* What the generator returned successfully in this call, in order *)
Generated == SelectSeq(outcomes, LAMBDA o : o # GenError)

(* The failed generation attempts of this call *)
Failures == Len(SelectSeq(outcomes, LAMBDA o : o = GenError))

(* A store write failed: the call ended on a store error after a generated seed *)
WriteFailed == result.error.kind = "store" /\ outcomes # <<>>

IsPrefix(p, q) == Len(p) <= Len(q) /\ SubSeq(q, 1, Len(p)) = p

Repeat(x, n) == [i \in 1..n |-> x]

(* C1: stats either returns an error and no Stats at all, or its loop has   *)
(* taken exactly sample_size seeds when it returns Ok: the aggregation only *)
(* ever runs over a corpus of exactly sample_size seeds.                    *)
C1_ExactlySampleSizeOrError ==
    /\ pc = "aggregate" => Len(seeds) = args.sample_size /\ consumed <= Len(seeds)
    /\ result.kind = "Ok" =>
          /\ consumed = args.sample_size
          /\ Len(seeds) = args.sample_size
          /\ Len(result.stats) = Len(args.analyzers)
    /\ result.kind = "Err" => result.stats = <<>> /\ consumed = 0 /\ data = <<>>
    /\ pc = "done" => result.kind \in {"Ok", "Err"}

C1_Witness ==
    /\ result.kind = "Ok"
    /\ args.sample_size = MaxSample
    /\ consumed = MaxSample
    /\ errors > 0
    /\ Len(args.analyzers) > 1

(* C2: with an empty cache, T+1 failures before any success end the         *)
(* construction with the exhaustion error, T failures followed by S         *)
(* successes give exactly S seeds, and the construction is aborted exactly  *)
(* when the failure count exceeds tolerated_errors (never at the count T).  *)
C2_StrictBudget ==
    LET S == args.sample_size
        T == args.tolerated_errors
    IN /\ result.error.kind = "exhausted" =>
             errors = T + 1 /\ result.error.count = T + 1 /\ pc = "done"
       /\ (pc \in {"generate", "aggregate"} \/ result.kind = "Ok") => errors <= T
       /\ (cache = Some(<<>>) /\ IsPrefix(Repeat(GenError, T + 1), outcomes)) =>
             /\ result.kind = "Err"
             /\ result.error.kind = "exhausted"
             /\ outcomes = Repeat(GenError, T + 1)
       /\ (/\ cache = Some(<<>>)
           /\ Len(outcomes) = T + S
           /\ IsPrefix(Repeat(GenError, T), outcomes)
           /\ Failures = T
           /\ ~WriteFailed) =>
             result.kind # "Err" /\ Len(seeds) = S

C2_Witness ==
    /\ result.kind = "Ok"
    /\ cache = Some(<<>>)
    /\ args.tolerated_errors = MaxTolerated
    /\ args.sample_size = MaxSample
    /\ outcomes = Repeat(GenError, MaxTolerated) \o Generated
    /\ Len(seeds) = MaxSample

(* C3: a call that follows a call that returned Ok, with the same           *)
(* sample_size and overwrite_seed_storage unset, never calls the generator  *)
(* and its corpus is the corpus of the call before, read from the store.    *)
C3_SecondRunReusesCache ==
    (/\ pc # "idle"
     /\ prior # None
     /\ ~args.overwrite_seed_storage
     /\ args.sample_size = Len(prior[1])) =>
        /\ outcomes = <<>>
        /\ errors = 0
        /\ store = store0
        /\ pc \in {"generate", "aggregate"} => seeds = prior[1]
        /\ result.kind = "Ok" => seeds = prior[1]

C3_Witness ==
    /\ result.kind = "Ok"
    /\ prior # None
    /\ ~args.overwrite_seed_storage
    /\ Len(prior[1]) = MaxSample
    /\ args.sample_size = MaxSample
    /\ seeds = prior[1]

(* The seeds of this call that reached the store: all the generated ones,   *)
(* but for the last one when its write failed                               *)
Persisted ==
    IF WriteFailed THEN SubSeq(Generated, 1, Len(Generated) - 1) ELSE Generated

(* C4, as claimed: in every state of a call the store holds what it held    *)
(* when the call started, followed by every seed generated so far.          *)
C4_Original ==
    pc # "idle" => store = store0 \o Generated

(* C4, amended: once the cache has been read, the store holds what it held  *)
(* then followed by every generated seed (but for a seed whose own write    *)
(* failed, which ends the call), also after the exhaustion error; nothing   *)
(* is written while a generated seed is still unsaved; and what the store   *)
(* held when the call started is kept whenever overwrite_seed_storage is    *)
(* unset.                                                                   *)
C4_GeneratedSeedsPersist ==
    /\ cache # None => store = cache[1] \o Persisted
    /\ cache = None => outcomes = <<>>
    /\ (pc = "generate" \/ result.error.kind = "exhausted") =>
          /\ ~WriteFailed
          /\ store = cache[1] \o Generated
    /\ (pc # "idle" /\ ~args.overwrite_seed_storage) =>
          /\ IsPrefix(store0, store)
          /\ cache # None => cache[1] = store0

C4_Witness ==
    /\ result.error.kind = "exhausted"
    /\ Len(Generated) > 0
    /\ args.overwrite_seed_storage
    /\ store0 # <<>>
    /\ store = Generated

(* C5: with c stored seeds the corpus starts with the first min(c, S) of    *)
(* them, taken without a generator call and without a counted failure; the  *)
(* failure count is the number of failed attempts; a failed attempt adds    *)
(* nothing to the corpus; and a finished corpus holds exactly               *)
(* max(0, S - c) generated seeds.                                           *)
C5_CacheThenGenerate ==
    cache # None =>
        LET c == Len(cache[1])
            S == args.sample_size
            hits == SubSeq(cache[1], 1, Min(c, S))
        IN /\ seeds = hits \o Persisted
           /\ errors = Failures
           /\ outcomes = <<>> => seeds = hits /\ errors = 0
           /\ (pc = "aggregate" \/ result.kind = "Ok") =>
                 /\ Len(Generated) = Max(0, S - c)
                 /\ Len(seeds) = S

C5_Witness ==
    /\ result.kind = "Ok"
    /\ cache # None
    /\ Len(cache[1]) = 1
    /\ args.sample_size = MaxSample
    /\ Failures = MaxTolerated
    /\ Len(Generated) = MaxSample - 1

(* C6: the exhaustion error carries min(failures, error_message_limit)      *)
(* messages, the limit being 10 when none is given, which are the messages  *)
(* of the first failed attempts, and its count is the number of failed      *)
(* attempts.                                                                *)
C6_RetainedMessages ==
    result.error.kind = "exhausted" =>
        LET limit == IF args.error_message_limit = None THEN 10
                     ELSE args.error_message_limit[1]
            failed == SelectSeq([i \in 1..Len(outcomes) |->
                                   IF outcomes[i] = GenError THEN i ELSE 0],
                                LAMBDA i : i # 0)
        IN /\ Len(result.error.messages) = Min(Failures, limit)
           /\ result.error.messages = SubSeq(failed, 1, Min(Failures, limit))
           /\ result.error.count = Failures
           /\ Failures = args.tolerated_errors + 1

C6_Witness ==
    /\ result.error.kind = "exhausted"
    /\ args.error_message_limit = None
    /\ result.error.count = 11
    /\ Len(result.error.messages) = 10
    /\ Len(Generated) > 0

(* The sum of the counts of a report *)
RECURSIVE SumOver(_, _)
SumOver(map, K) ==
    IF K = {} THEN 0
    ELSE LET k == CHOOSE x \in K : TRUE IN map[k] + SumOver(map, K \ {k})
Total(map) == SumOver(map, DOMAIN map)

RECURSIVE Product(_)
Product(ns) == IF ns = <<>> THEN 1 ELSE Head(ns) * Product(Tail(ns))

(* The count of a key in a report, 0 when the report has no such key *)
CountOf(map, key) == IF key \in DOMAIN map THEN map[key] ELSE 0

(* The label lists the analyzers of a chain give for a seed *)
LabelLists(chain, seed) == [j \in 1..Len(chain) |-> Analyze(chain[j], seed)]

(* The choices of one label position per analyzer *)
Choices(lists) ==
    {ch \in [1..Len(lists) -> 1..3] : \A j \in 1..Len(lists) : ch[j] <= Len(lists[j])}

KeyOf(lists, ch) == [j \in 1..Len(lists) |-> lists[j][ch[j]]]

(* The seed the loop has just taken *)
JustAnalyzed == pc = "aggregate" /\ consumed' = consumed + 1

(* C7, as claimed: a seed gives a chain k1*...*km distinct keys, so that    *)
(* many keys of the report change when the seed is taken.                   *)
C7_Original ==
    [][JustAnalyzed =>
        \A i \in 1..Len(args.analyzers) :
            LET lists == LabelLists(args.analyzers[i], seeds[consumed'])
                changed == {k \in DOMAIN data'[i] :
                              CountOf(data'[i], k) # CountOf(data[i], k)}
            IN Cardinality(changed) = Product([j \in 1..Len(lists) |-> Len(lists[j])])
      ]_vars

(* C7, amended: a seed gives a chain one key for each choice of one label   *)
(* position per analyzer, the key holding the chosen labels in chain order: *)
(* k1*...*km keys, each counted once, so that the counts of the report grow *)
(* by k1*...*km in all and a key grows by the number of choices that spell  *)
(* it; the keys are pairwise distinct when no analyzer repeats a label.     *)
C7_CartesianProduct ==
    [][JustAnalyzed =>
        \A i \in 1..Len(args.analyzers) :
            LET lists == LabelLists(args.analyzers[i], seeds[consumed'])
                choices == Choices(lists)
                product == Product([j \in 1..Len(lists) |-> Len(lists[j])])
                keys == {KeyOf(lists, ch) : ch \in choices}
                repeats == \E j \in 1..Len(lists) : \E a, b \in 1..Len(lists[j]) :
                               a # b /\ lists[j][a] = lists[j][b]
            IN /\ Cardinality(choices) = product
               /\ Total(data'[i]) = Total(data[i]) + product
               /\ DOMAIN data'[i] = DOMAIN data[i] \cup keys
               /\ \A k \in DOMAIN data'[i] :
                     data'[i][k] = CountOf(data[i], k)
                        + Cardinality({ch \in choices : KeyOf(lists, ch) = k})
               /\ ~repeats => Cardinality(keys) = product
      ]_vars

C7_Witness ==
    /\ pc = "aggregate"
    /\ consumed = 1
    /\ seeds[1] = "s1"
    /\ Len(args.analyzers) = 3
    /\ Cardinality(DOMAIN data[1]) = 9
    /\ Cardinality(DOMAIN data[3]) = 3

(* A chain whose analyzers give exactly one label for every seed *)
Unambiguous(chain) ==
    \A j \in 1..Len(chain) : \A seed \in Artifacts : Len(Analyze(chain[j], seed)) = 1

(* C8: the counts of the report of an unambiguous chain add up to the       *)
(* number of seeds taken so far, and to sample_size when stats returns Ok.  *)
C8_UnambiguousSum ==
    /\ pc = "aggregate" =>
          \A i \in 1..Len(args.analyzers) :
              Unambiguous(args.analyzers[i]) => Total(data[i]) = consumed
    /\ result.kind = "Ok" =>
          \A i \in 1..Len(args.analyzers) :
              Unambiguous(args.analyzers[i]) =>
                  Total(result.stats[i].data) = args.sample_size

C8_Witness ==
    /\ result.kind = "Ok"
    /\ args.sample_size = MaxSample
    /\ Len(args.analyzers) = 3
    /\ Unambiguous(args.analyzers[2])
    /\ Total(result.stats[2].data) = MaxSample
    /\ seeds[1] = seeds[2]

(* A label that parses as a u32, and the order of two labels at one         *)
(* position as the claims word it: -1, 0 or 1                               *)
IsNumeric(label) == ParseU32(label) # None

NumericFirst(a, b) ==
    IF IsNumeric(a) /\ IsNumeric(b) THEN CmpU32(ParseU32(a)[1], ParseU32(b)[1])
    ELSE IF IsNumeric(a) THEN -1
    ELSE IF IsNumeric(b) THEN 1
    ELSE CmpString(a, b)

TextFirst(a, b) ==
    IF IsNumeric(a) /\ IsNumeric(b) THEN CmpU32(ParseU32(a)[1], ParseU32(b)[1])
    ELSE IF IsNumeric(a) THEN 1
    ELSE IF IsNumeric(b) THEN -1
    ELSE CmpString(a, b)

(* Two keys of one width in order: the first position where the labels      *)
(* differ in order decides, under the order Cmp of labels                   *)
InOrder(Cmp(_, _), k1, k2) ==
    \/ \A p \in 1..Len(k1) : Cmp(k1[p], k2[p]) = 0
    \/ \E p \in 1..Len(k1) :
          /\ Cmp(k1[p], k2[p]) < 0
          /\ \A q \in 1..(p - 1) : Cmp(k1[q], k2[q]) = 0

(* csv() has been called on the Stats *)
Rendered == csvOut.csv # <<>>

(* C9, as claimed: the rows are in order position by position, numbers by   *)
(* value, texts by their bytes, every number before every text; the labels  *)
(* 10, 2, apple come out as 2, 10, apple.                                   *)
C9_Original ==
    Rendered =>
        /\ \A i, j \in 1..Len(csvOut.data) :
              i < j => InOrder(NumericFirst, csvOut.data[i], csvOut.data[j])
        /\ DOMAIN result.stats[1].data = {<<Str10>>, <<Str2>>, <<StrApple>>} =>
              csvOut.data = << <<Str2>>, <<Str10>>, <<StrApple>> >>

(* C9, amended: the rows are in order position by position, numbers by      *)
(* value, texts by their bytes, every text before every number; the labels  *)
(* 10, 2, apple come out as apple, 2, 10.  The rows are the keys of the     *)
(* report, each once.                                                       *)
C9_TextBeforeNumbers ==
    Rendered =>
        /\ \A i, j \in 1..Len(csvOut.data) :
              i < j => InOrder(TextFirst, csvOut.data[i], csvOut.data[j])
        /\ {csvOut.data[i] : i \in 1..Len(csvOut.data)} = DOMAIN result.stats[1].data
        /\ Len(csvOut.data) = Cardinality(DOMAIN result.stats[1].data)
        /\ DOMAIN result.stats[1].data = {<<Str10>>, <<Str2>>, <<StrApple>>} =>
              csvOut.data = << <<StrApple>>, <<Str2>>, <<Str10>> >>

C9_Witness ==
    /\ Rendered
    /\ DOMAIN result.stats[1].data = {<<Str10>>, <<Str2>>, <<StrApple>>}
    /\ csvOut.data = << <<StrApple>>, <<Str2>>, <<Str10>> >>

(* The report stats() gives for the seeds when called with one chain alone *)
RECURSIVE SoloData(_, _)
SoloData(chain, corpus) ==
    IF corpus = <<>> THEN EmptyMap
    ELSE AnalyzeSeedInto(<<SoloData(chain, SubSeq(corpus, 1, Len(corpus) - 1))>>,
                         <<chain>>, corpus[Len(corpus)])[1]

SoloStats(chain, corpus) == MakeStats(<<SoloData(chain, corpus)>>, <<chain>>)[1]

(* C10: stats returns one Stats per chain, in the order of the chains, with *)
(* the titles of the analyzers of that chain, and with the report the chain *)
(* gets when stats is called with it alone on the same seeds; the same      *)
(* holds of the accumulators after every seed.                              *)
C10_ChainsIndependent ==
    /\ pc = "aggregate" =>
          /\ Len(data) = Len(args.analyzers)
          /\ \A i \in 1..Len(data) :
                data[i] = SoloData(args.analyzers[i], SubSeq(seeds, 1, consumed))
    /\ result.kind = "Ok" =>
          /\ Len(result.stats) = Len(args.analyzers)
          /\ \A i \in 1..Len(result.stats) :
                /\ result.stats[i] = SoloStats(args.analyzers[i], seeds)
                /\ result.stats[i].analyzer_titles =
                      [j \in 1..Len(args.analyzers[i]) |-> Title(args.analyzers[i][j])]

C10_Witness ==
    /\ result.kind = "Ok"
    /\ Len(result.stats) = 3
    /\ args.sample_size = MaxSample
    /\ result.stats[2].analyzer_titles = <<StrGoal, StrCount>>
    /\ seeds[1] # seeds[2]
    /\ result.stats[3] = SoloStats(<<"Zone">>, seeds)

(* The labels an analyzer gives for some seed of a corpus *)
LabelsOf(analyzer, corpus) ==
    UNION {{Analyze(analyzer, corpus[n])[l] :
               l \in 1..Len(Analyze(analyzer, corpus[n]))} : n \in 1..Len(corpus)}

(* Every key of a report has one label per analyzer of the chain, the label *)
(* at position j being one the j-th analyzer gave for a seed of the corpus  *)
KeysFit(map, chain, corpus) ==
    \A key \in DOMAIN map :
        /\ Len(key) = Len(chain)
        /\ \A j \in 1..Len(chain) : key[j] \in LabelsOf(chain[j], corpus)

(* C11: every Stats Key of a chain's report is as long as the chain, with   *)
(* the label at position i coming from the i-th analyzer of the chain.      *)
C11_KeyShape ==
    /\ pc = "aggregate" =>
          \A i \in 1..Len(data) :
              KeysFit(data[i], args.analyzers[i], SubSeq(seeds, 1, consumed))
    /\ result.kind = "Ok" =>
          \A i \in 1..Len(result.stats) :
              KeysFit(result.stats[i].data, args.analyzers[i], seeds)

C11_Witness ==
    /\ result.kind = "Ok"
    /\ Len(result.stats) = 2
    /\ args.sample_size = MaxSample
    /\ <<Str2, StrWisps>> \in DOMAIN result.stats[2].data
    /\ <<StrApple, StrTrees>> \in DOMAIN result.stats[2].data

(* How often a key comes in a sequence of keys *)
Occurrences(keys, key) == Cardinality({n \in 1..Len(keys) : keys[n] = key})

(* C12: while the seeds are taken, every key analyze_chain gives for the    *)
(* seed raises the count of that key by one (a key given n times by n), no  *)
(* other count changes, and no count is ever lowered or removed.            *)
C12_CountsOnlyGrow ==
    [][pc = "aggregate" =>
        /\ Len(data') = Len(data)
        /\ \A i \in 1..Len(data) :
              /\ DOMAIN data[i] \subseteq DOMAIN data'[i]
              /\ \A k \in DOMAIN data[i] : data'[i][k] >= data[i][k]
        /\ consumed' = consumed + 1 =>
              \A i \in 1..Len(data) :
                  LET keys == AnalyzeChain(args.analyzers[i], seeds[consumed'])
                  IN \A k \in DOMAIN data'[i] :
                        data'[i][k] = CountOf(data[i], k) + Occurrences(keys, k)
      ]_vars

C12_Witness ==
    /\ pc = "aggregate"
    /\ consumed = 2
    /\ seeds = <<"s1", "s2">>
    /\ Len(data) = 3
    /\ data[3][<<Str2>>] = 3
    /\ data[3][<<Str10>>] = 1

(* The orders in which the seeds of a corpus can be delivered *)
DeliveryOrders(corpus) ==
    {[n \in 1..Len(corpus) |-> corpus[f[n]]] :
        f \in {g \in [1..Len(corpus) -> 1..Len(corpus)] :
                 \A a, b \in 1..Len(corpus) : a # b => g[a] # g[b]}}

(* The counts of a chain worked out from how often each seed is in the      *)
(* corpus, whatever the order                                               *)
CountFromBag(chain, corpus, key) ==
    LET times(seed) == Cardinality({n \in 1..Len(corpus) : corpus[n] = seed})
        each == [seed \in Artifacts |->
                    times(seed) * Occurrences(AnalyzeChain(chain, seed), key)]
    IN SumOver(each, Artifacts)

(* C13: the counts stats returns depend on the multiset of the seeds only:  *)
(* every order of the same seeds gives every chain the same report.         *)
C13_OrderIrrelevant ==
    result.kind = "Ok" =>
        \A i \in 1..Len(result.stats) :
            /\ \A corpus \in DeliveryOrders(seeds) :
                  SoloData(args.analyzers[i], corpus) = result.stats[i].data
            /\ \A key \in DOMAIN result.stats[i].data :
                  result.stats[i].data[key] = CountFromBag(args.analyzers[i], seeds, key)

C13_Witness ==
    /\ result.kind = "Ok"
    /\ args.sample_size = MaxSample
    /\ seeds[1] # seeds[MaxSample]
    /\ Len(result.stats) = 3
    /\ Cardinality(DeliveryOrders(seeds)) > 1

(* The seeds the construction found in the store *)
Cached == IF cache = None THEN 0 ELSE Len(cache[1])

(* The most generator calls a construction may make *)
CallBound ==
    (IF args.sample_size > Cached THEN args.sample_size - Cached ELSE 0)
    + args.tolerated_errors + 1

(* What is left to the construction: seeds still to find and failures       *)
(* still to go before the budget is exceeded                                *)
Measure ==
    (args.sample_size - Len(seeds)) + (args.tolerated_errors + 1 - errors)

Constructing == pc \in {"clean", "new", "generate"}

(* The steps a call takes while it constructs the corpus *)
ConstructionStep ==
    \/ CleanSeeds
    \/ ReadSeeds
    \/ \E seed \in Artifacts : GenerateOk(seed)
    \/ GenerateErr
    \/ SeedsReady

(* C19: the construction of the corpus ends whatever the generator does:    *)
(* the generator is called at most max(0, S-c)+T+1 times, a call starts     *)
(* only while the failures are within the budget and the corpus is short,   *)
(* a constructing call always has a next step, and every such step moves    *)
(* the call on, ends it, or is a generator call that lowers what is left.   *)
C19_ConstructionTerminates ==
    /\ [](/\ Len(outcomes) <= CallBound
          /\ Constructing => Measure >= 1 /\ ENABLED ConstructionStep)
    /\ [][/\ outcomes' # outcomes =>
               /\ pc = "generate"
               /\ Len(outcomes') = Len(outcomes) + 1
               /\ errors <= args.tolerated_errors
               /\ Len(seeds) < args.sample_size
               /\ pc' = "done" \/ (Measure' < Measure /\ Measure' >= 1)
          /\ (Constructing /\ pc' = pc) => outcomes' # outcomes
         ]_vars

C19_Witness ==
    /\ result.error.kind = "exhausted"
    /\ args.sample_size = MaxSample
    /\ args.tolerated_errors = MaxTolerated
    /\ Cached = 1
    /\ Len(outcomes) = MaxSample - Cached + MaxTolerated

(* The run of five seeds with the goals trees, trees, wisps, quests, trees:  *)
(* a generator that never fails and returns these seeds, in any order       *)
ScenarioGoals == <<"s1", "s1", "s2", "s3", "s1">>
ScenarioArtifacts == {ScenarioGoals[n] : n \in 1..Len(ScenarioGoals)}

ScenarioArgsSet ==
    [sample_size : {Len(ScenarioGoals)},
     tolerated_errors : {0},
     error_message_limit : {None},
     overwrite_seed_storage : BOOLEAN,
     analyzers : {<< <<"Goal">> >>}]

GenerateScenario ==
    \E seed \in ScenarioArtifacts :
        /\ Occurrences(outcomes, seed) < Occurrences(ScenarioGoals, seed)
        /\ GenerateOk(seed)

NextScenario ==
    \/ \E a \in ScenarioArgsSet : Stats(a)
    \/ CleanSeeds
    \/ ReadSeeds
    \/ GenerateScenario
    \/ SeedsReady
    \/ AnalyzeSeed
    \/ Return
    \/ /\ result.kind = "Ok"
       /\ \E iter \in IterOrders(result.stats[1].data) : Csv(1, iter)

SpecScenario == InitRerun /\ [][NextScenario]_vars

(* C14: five seeds with the goals trees, trees, wisps, quests, trees and    *)
(* one chain of one goal analyzer give the rows quests 1, trees 3, wisps 1, *)
(* rendered in alphabetical order under the header, the counts adding up to *)
(* five.                                                                    *)
C14_GoalDistribution ==
    Rendered =>
        /\ result.stats[1].data =
              (<<StrTrees>> :> 3) @@ (<<StrWisps>> :> 1) @@ (<<StrQuests>> :> 1)
        /\ Total(result.stats[1].data) = 5
        /\ csvOut.data = << <<StrQuests>>, <<StrTrees>>, <<StrWisps>> >>
        /\ csvOut.csv = StrGoal \o CountHeader
                          \o StrQuests \o <<",", " ", "1", "\n">>
                          \o StrTrees \o <<",", " ", "3", "\n">>
                          \o StrWisps \o <<",", " ", "1">>

C14_Witness ==
    /\ Rendered
    /\ Len(seeds) = 5
    /\ outcomes = ScenarioGoals
    /\ Len(csvOut.data) = 3

(* The pieces of a text between the occurrences of a separator *)
RECURSIVE Split(_, _)
Split(text, sep) ==
    LET hits == {i \in 1..(Len(text) - Len(sep) + 1) :
                    SubSeq(text, i, i + Len(sep) - 1) = sep}
    IN IF hits = {} THEN <<text>>
       ELSE LET i == CHOOSE h \in hits : \A g \in hits : h <= g
            IN <<SubSeq(text, 1, i - 1)>>
               \o Split(SubSeq(text, i + Len(sep), Len(text)), sep)

(* The fields of a row but the last: the labels *)
RowLabels(row) ==
    LET fields == Split(row, CommaSpace) IN SubSeq(fields, 1, Len(fields) - 1)

(* The last field of a row: the count *)
RowCount(row) ==
    LET fields == Split(row, CommaSpace) IN fields[Len(fields)]

(* C15: the text of csv is a header row with the titles of the analyzers in *)
(* chain order and then Count, followed by one row for every key of the     *)
(* report and no other row, a row holding the labels of its key in order    *)
(* and then the count of the key; a report without keys gives the header    *)
(* row alone.                                                               *)
C15_CsvLayout ==
    Rendered =>
        LET stats == result.stats[1]
            lines == Split(csvOut.csv, NewLine)
            rows == Tail(lines)
        IN /\ Split(lines[1], CommaSpace)
                = Append(stats.analyzer_titles, <<"C", "o", "u", "n", "t">>)
           /\ IF DOMAIN stats.data = {}
              THEN rows = << <<>> >>
              ELSE /\ Len(rows) = Cardinality(DOMAIN stats.data)
                   /\ \A key \in DOMAIN stats.data :
                         Cardinality({n \in 1..Len(rows) : RowLabels(rows[n]) = key}) = 1
                   /\ \A n \in 1..Len(rows) :
                         /\ RowLabels(rows[n]) \in DOMAIN stats.data
                         /\ ParseU32(RowCount(rows[n]))
                              = Some([hi |-> 0, lo |-> stats.data[RowLabels(rows[n])]])
                         /\ Head(RowCount(rows[n])) \in {"1", "2", "3", "4", "5",
                                                         "6", "7", "8", "9"}

C15_Witness ==
    /\ Rendered
    /\ Len(result.stats[1].analyzer_titles) = 2
    /\ Cardinality(DOMAIN result.stats[1].data) = MaxKeys
    /\ \E key \in DOMAIN result.stats[1].data : result.stats[1].data[key] = 7

(* C16: with overwrite_seed_storage set, the store is cleaned before any    *)
(* stored seed is read and before the generator is called, so the read that *)
(* follows finds nothing and every seed analysed was generated by this      *)
(* call; with it unset there is no clean and what the store held stays.     *)
C16_CleanFirstOrNever ==
    /\ pc = "clean" =>
          /\ args.overwrite_seed_storage
          /\ cache = None
          /\ outcomes = <<>>
          /\ seeds = <<>>
    /\ (args.overwrite_seed_storage /\ (cache # None \/ outcomes # <<>>)) =>
          /\ cache = Some(<<>>)
          /\ seeds = Persisted
          /\ store = Persisted
    /\ (args.overwrite_seed_storage /\ consumed > 0) =>
          SubSeq(seeds, 1, consumed) = SubSeq(Generated, 1, consumed)
    /\ ~args.overwrite_seed_storage =>
          /\ pc # "clean"
          /\ IsPrefix(store0, store)

C16_Witness ==
    /\ result.kind = "Ok"
    /\ args.overwrite_seed_storage
    /\ Len(store0) = MaxCached
    /\ args.sample_size = MaxSample
    /\ seeds = Generated
    /\ seeds # store0

(* C17: the step in which a store operation fails ends the call with an     *)
(* error and no Stats, leaves the failure count, the corpus and the store   *)
(* as they were, and is followed by no further step of the call: no retry,  *)
(* no generator call, no report.                                            *)
C17_StoreFailureEndsCall ==
    [][/\ result.error.kind # "store"
       /\ result'.error.kind = "store" =>
             /\ pc' = "done"
             /\ result'.kind = "Err"
             /\ result'.stats = <<>>
             /\ errors' = errors
             /\ errors' = Failures'
             /\ errors' <= args.tolerated_errors
             /\ seeds' = seeds
             /\ store' = store
             /\ data' = <<>>
      ]_vars

C17_Witness ==
    /\ WriteFailed
    /\ pc = "done"
    /\ errors = MaxTolerated
    /\ Len(Generated) = MaxSample

(* Reports with up to MaxTitles analyzers, any of the titles in any order *)
MaxTitles == 3

RECURSIVE TitleLists(_)
TitleLists(n) ==
    IF n = 0 THEN {<<>>}
    ELSE {Append(ts, t) : ts \in TitleLists(n - 1),
                          t \in {Title(a) : a \in Analyzers} \cup {StrA}}

TitleStats ==
    {[analyzer_titles |-> ts, data |-> EmptyMap] :
        ts \in UNION {TitleLists(n) : n \in 1..MaxTitles}}

InitTitle ==
    /\ pc = "done"
    /\ args = NoArgs
    /\ store = <<>>
    /\ seeds = <<>>
    /\ errors = 0
    /\ messages = <<>>
    /\ data = <<>>
    /\ consumed = 0
    /\ result \in {Ok(<<stats>>) : stats \in TitleStats}
    /\ csvOut = NoCsv
    /\ outcomes = <<>>
    /\ store0 = <<>>
    /\ cache = None
    /\ prior = None
    /\ CliIdle

NextTitle == \E i \in 1..Len(result.stats) : TitleCall(i)

SpecTitle == InitTitle /\ [][NextTitle]_vars

Titled == csvOut.title # <<>>

(* C18: Stats::title is the titles of the analyzers of the chain, in chain  *)
(* order, with " and " between them; with one analyzer it is its title.     *)
C18_TitleJoined ==
    Titled =>
        LET titles == result.stats[1].analyzer_titles
        IN /\ Split(csvOut.title, <<" ", "a", "n", "d", " ">>) = titles
           /\ Len(titles) = 1 => csvOut.title = titles[1]
           /\ Len(csvOut.title) = Len(Concat(titles)) + 5 * (Len(titles) - 1)

C18_Witness ==
    /\ Titled
    /\ result.stats[1].analyzer_titles = <<StrZone, StrGoal, StrCount>>
    /\ csvOut.title = StrZone \o <<" ", "a", "n", "d", " ">> \o StrGoal
                        \o <<" ", "a", "n", "d", " ">> \o StrCount

(* Two keys that differ in the writing of their numbers only: at every      *)
(* position the same label, or two labels that parse to the same u32        *)
SameNumbers(k1, k2) ==
    /\ Len(k1) = Len(k2)
    /\ \A p \in 1..Len(k1) :
          \/ k1[p] = k2[p]
          \/ IsNumeric(k1[p]) /\ IsNumeric(k2[p]) /\ ParseU32(k1[p]) = ParseU32(k2[p])

(* Two distinct keys of the report have the same sort key *)
HasTies(map) ==
    \E k1, k2 \in DOMAIN map : k1 # k2 /\ SortKey(k1) = SortKey(k2)

(* The place of a row in a sequence of rows *)
PlaceOf(rows, key) == CHOOSE n \in 1..Len(rows) : rows[n] = key

(* The rows of a text, in no order *)
RowSet(text) ==
    LET lines == Split(text, NewLine) IN {lines[n] : n \in 2..Len(lines)}

(* C20 as stated: no two distinct keys of a report have the same sort key,  *)
(* and every order in which the map yields its rows renders the same text.  *)
C20_Original ==
    Rendered =>
        /\ ~HasTies(result.stats[1].data)
        /\ \A iter \in IterOrders(result.stats[1].data) :
              CsvText(result.stats[1], iter) = csvOut.csv

(* C20: two distinct keys have the same sort key exactly when they differ   *)
(* in the writing of their numbers only; rows with the same sort key stay   *)
(* in the order in which the map yields them; a report without such keys    *)
(* renders the same text whatever that order, and any report renders the    *)
(* same set of rows.                                                        *)
C20_DeterministicButForTies ==
    Rendered =>
        LET stats == result.stats[1]
            orders == IterOrders(stats.data)
        IN /\ \A k1, k2 \in DOMAIN stats.data :
                 SortKey(k1) = SortKey(k2) <=> SameNumbers(k1, k2)
           /\ \A iter \in orders :
                 LET sorted == SortByKey(iter)
                     text == CsvText(stats, iter)
                 IN /\ \A a, b \in 1..Len(iter) :
                         (a < b /\ SortKey(iter[a]) = SortKey(iter[b])) =>
                             PlaceOf(sorted, iter[a]) < PlaceOf(sorted, iter[b])
                    /\ ~HasTies(stats.data) => text = csvOut.csv
                    /\ RowSet(text) = RowSet(csvOut.csv)

C20_Witness ==
    /\ Rendered
    /\ DOMAIN result.stats[1].data = {<<Str2>>, <<Str02>>, <<StrPlus2>>}
    /\ csvOut.data = << <<StrPlus2>>, <<Str2>>, <<Str02>> >>
    /\ \E iter \in IterOrders(result.stats[1].data) :
          CsvText(result.stats[1], iter) # csvOut.csv

----------------------------------------------------------------------------
(* The command line, src/wotw_seedgen_cli/src/main.rs *)

(* stats() is not running *)
StatsIdle ==
    /\ pc = "idle"
    /\ args = NoArgs
    /\ store = <<>>
    /\ seeds = <<>>
    /\ errors = 0
    /\ messages = <<>>
    /\ data = <<>>
    /\ consumed = 0
    /\ result = NoResult
    /\ csvOut = NoCsv
    /\ outcomes = <<>>
    /\ store0 = <<>>
    /\ cache = None
    /\ prior = None

CliOk(value) == [kind |-> "Ok", value |-> value, error |-> NoCliError]
CliErr(error) == [kind |-> "Err", value |-> <<>>, error |-> error]

(* WorldOptError::IndexError(world) *)
IndexError(world) ==
    [kind |-> "IndexError", index |-> 0, source |-> world, prior_source |-> <<>>]

(* "World index {index} greater than number of worlds" *)
IndexTooGreat(i) ==
    [kind |-> "IndexTooGreat", index |-> i, source |-> <<>>, prior_source |-> <<>>]

(* "Provided multiple values for the same world: {source} and {prior_source}" *)
MultipleValues(source, prior_source) ==
    [kind |-> "MultipleValues", index |-> 0, source |-> source,
     prior_source |-> prior_source]

(* str::strip_prefix with a character *)
StripPrefix(s, c) == IF s # <<>> /\ Head(s) = c THEN Some(Tail(s)) ELSE None

(* The digits of a usize read from the left; None at a character that is no *)
(* digit.  The arguments of the model have few digits, far below usize::MAX *)
RECURSIVE DigitsValue(_, _)
DigitsValue(n, digits) ==
    IF digits = <<>> THEN Some(n)
    ELSE IF ~IsDigit(Head(digits)) THEN None
    ELSE DigitsValue(n * 10 + (Code(Head(digits)) - 48), Tail(digits))

(* str::parse::<usize>: an optional plus, then one or more decimal digits *)
ParseUsize(s) ==
    IF s = <<>> THEN None
    ELSE IF Len(s) = 1 /\ Head(s) \in {"+", "-"} THEN None
    ELSE IF Head(s) = "+" THEN DigitsValue(0, Tail(s))
    ELSE DigitsValue(0, s)

(* WorldOptInner<T> *)
World(i) == [variant |-> "World", index |-> i, value |-> <<>>]
Opt(value) == [variant |-> "Opt", index |-> 0, value |-> value]

(* WorldOpt::from_str with T = String, whose from_str never fails *)
FromStr(s) ==
    LET world == StripPrefix(s, ":")
    IN IF world # None
       THEN LET parsed == ParseUsize(world[1])
            IN IF parsed = None THEN CliErr(IndexError(world[1]))
               ELSE CliOk([source |-> s, inner |-> World(parsed[1])])
       ELSE CliOk([source |-> s, inner |-> Opt(s)])

(* What is typed for one flag: world specifiers, good and bad, and values *)
MaxOpts == 3
MaxWorlds == 2

ArgWorld0 == <<":", "0">>
ArgWorld1 == <<":", "1">>
ArgWorldPlus1 == <<":", "+", "1">>
ArgWorld2 == <<":", "2">>
ArgWorldX == <<":", "x">>
ArgA == <<"a">>
ArgB == <<"b">>

Args == {ArgWorld0, ArgWorld1, ArgWorldPlus1, ArgWorld2, ArgWorldX, ArgA, ArgB}

InitWorldOpts(function) ==
    /\ StatsIdle
    /\ call = function
    /\ cpc = "parse"
    /\ argv \in SeqsUpTo(Args, MaxOpts)
    /\ world_opts = <<>>
    /\ worlds \in 0..MaxWorlds
    /\ world_values = <<>>
    /\ current_world = None
    /\ taken = 0
    /\ path = <<>>
    /\ contents = <<>>
    /\ files = <<>>
    /\ parent = FALSE
    /\ index = 0
    /\ tried = <<>>
    /\ files0 = <<>>
    /\ returned = NotReturned

(* The flag values are parsed one by one, the first that fails ends the run *)
ParseArgs ==
    /\ cpc = "parse"
    /\ LET parsed == [n \in 1..Len(argv) |-> FromStr(argv[n])]
           failed == {n \in 1..Len(argv) : parsed[n].kind = "Err"}
       IN IF failed = {}
          THEN /\ world_opts' = [n \in 1..Len(argv) |-> parsed[n].value]
               /\ cpc' = "enter"
               /\ UNCHANGED returned
          ELSE /\ returned' = parsed[CHOOSE n \in failed : \A m \in failed : n <= m]
               /\ cpc' = "done"
               /\ UNCHANGED world_opts
    /\ UNCHANGED <<call, argv, worlds, world_values, current_world, taken, path,
                   contents, files, parent, index, tried, files0>>
    /\ UNCHANGED statsVars

(* resolve_world_opts, main.rs 72-73 *)
ResolveEnter ==
    /\ call = "resolve_world_opts"
    /\ cpc = "enter"
    /\ world_values' = [w \in 1..worlds |-> <<>>]
    /\ current_world' = None
    /\ taken' = 0
    /\ cpc' = "loop"
    /\ UNCHANGED <<call, argv, world_opts, worlds, path, contents, files, parent,
                   index, tried, files0, returned>>
    /\ UNCHANGED statsVars

(* world.push(value.clone()) for every world *)
PushAll(values, value) == [w \in 1..Len(values) |-> Append(values[w], value)]

(* PushOne as it would be if the value went to every world *)
PushOneToAll(values, i, value) == PushAll(values, value)

(* world_values.get_mut(index) ... .push(value); the worlds count from 0 *)
PushOne(values, i, value) == [values EXCEPT ![i + 1] = Append(@, value)]

(* One turn of the for loop of resolve_world_opts, main.rs 75-88 *)
ResolveStep ==
    /\ call = "resolve_world_opts"
    /\ cpc = "loop"
    /\ taken < Len(world_opts)
    /\ taken' = taken + 1
    /\ LET world_opt == world_opts[taken + 1]
       IN IF world_opt.inner.variant = "World"
          THEN /\ current_world' = Some(world_opt.inner.index)
               /\ UNCHANGED <<world_values, cpc, returned>>
          ELSE IF current_world # None
          THEN IF current_world[1] < Len(world_values)
               THEN /\ world_values' = PushOne(world_values, current_world[1],
                                               world_opt.inner.value)
                    /\ UNCHANGED <<current_world, cpc, returned>>
               ELSE /\ returned' = CliErr(IndexTooGreat(current_world[1]))
                    /\ cpc' = "done"
                    /\ UNCHANGED <<current_world, world_values>>
          ELSE /\ world_values' = PushAll(world_values, world_opt.inner.value)
               /\ UNCHANGED <<current_world, cpc, returned>>
    /\ UNCHANGED <<call, argv, world_opts, worlds, path, contents, files, parent,
                   index, tried, files0>>
    /\ UNCHANGED statsVars

(* Ok(world_values), main.rs 90 *)
ResolveReturn ==
    /\ call = "resolve_world_opts"
    /\ cpc = "loop"
    /\ taken = Len(world_opts)
    /\ returned' = CliOk(world_values)
    /\ cpc' = "done"
    /\ UNCHANGED <<call, argv, world_opts, worlds, world_values, current_world,
                   taken, path, contents, files, parent, index, tried, files0>>
    /\ UNCHANGED statsVars

InitResolve == InitWorldOpts("resolve_world_opts")

NextResolve ==
    \/ ParseArgs
    \/ ResolveEnter
    \/ ResolveStep
    \/ ResolveReturn

SpecResolve == InitResolve /\ [][NextResolve]_vars

(* The world specifier that holds when the n-th option is taken: the last   *)
(* one before it, None if there is none                                     *)
CursorAt(opts, n) ==
    LET before == {m \in 1..(n - 1) : opts[m].inner.variant = "World"}
    IN IF before = {} THEN None
       ELSE Some(opts[CHOOSE m \in before : \A l \in before : l <= m].inner.index)

(* The options among the first n that give a value to world w (from 0) *)
GivenTo(opts, n, w) ==
    SelectSeq([m \in 1..n |-> [at |-> m, opt |-> opts[m]]],
              LAMBDA e : /\ e.opt.inner.variant = "Opt"
                         /\ CursorAt(opts, e.at) \in {None, Some(w)})

(* The values of a sequence of options *)
ValuesOf(given) == [m \in 1..Len(given) |-> given[m].opt.inner.value]

(* The first n options hold a value that goes to a world that is not there *)
OutOfRange(opts, n, count) ==
    \E m \in 1..n : /\ opts[m].inner.variant = "Opt"
                    /\ CursorAt(opts, m) # None
                    /\ CursorAt(opts, m)[1] >= count

(* C21: resolve_world_opts takes the options in order: a value before any   *)
(* world specifier goes to every world, a value after :i goes to world i    *)
(* only; Ok holds exactly `worlds` lists, each in the order of the options; *)
(* a value given while the specifier is >= worlds ends in an error.         *)
C21_ResolveWorldOpts ==
    /\ cpc = "loop" =>
          /\ Len(world_values) = worlds
          /\ current_world = CursorAt(world_opts, taken + 1)
          /\ ~OutOfRange(world_opts, taken, worlds)
          /\ \A w \in 0..(worlds - 1) :
                world_values[w + 1] = ValuesOf(GivenTo(world_opts, taken, w))
    /\ returned.kind = "Ok" =>
          /\ Len(returned.value) = worlds
          /\ ~OutOfRange(world_opts, Len(world_opts), worlds)
          /\ \A w \in 0..(worlds - 1) :
                returned.value[w + 1]
                  = ValuesOf(GivenTo(world_opts, Len(world_opts), w))
    /\ returned.error.kind = "IndexTooGreat" =>
          /\ returned.value = <<>>
          /\ returned.error.index >= worlds
          /\ world_opts[taken].inner.variant = "Opt"
          /\ CursorAt(world_opts, taken) = Some(returned.error.index)
          /\ ~OutOfRange(world_opts, taken - 1, worlds)
    /\ (cpc = "done" /\ world_opts # <<>> /\ OutOfRange(world_opts, Len(world_opts), worlds)) =>
          returned.kind = "Err"

C21_Witness ==
    /\ returned.kind = "Ok"
    /\ worlds = MaxWorlds
    /\ argv = <<ArgA, ArgWorldPlus1, ArgB>>
    /\ returned.value = << <<ArgA>>, <<ArgA, ArgB>> >>

(* assign_nonduplicate as it would be if a later value replaced the prior *)
AssignOverwrite(assign, current_world_entry, source) ==
    CliOk(Some([value |-> assign, source |-> source]))

(* assign_nonduplicate, main.rs 93-101: the entry afterwards, or the error *)
AssignNonduplicate(assign, current_world_entry, source) ==
    IF current_world_entry # None
    THEN CliErr(MultipleValues(source, current_world_entry[1].source))
    ELSE CliOk(Some([value |-> assign, source |-> source]))

(* for current_world_entry in &mut world_values { assign_nonduplicate(..)? }: *)
(* the worlds are assigned in order up to the first that fails                *)
AssignAll(values, assign, source) ==
    LET outcome == [w \in 1..Len(values) |->
                       AssignNonduplicate(assign, values[w], source)]
        failed == {w \in 1..Len(values) : outcome[w].kind = "Err"}
        stop == IF failed = {} THEN Len(values) + 1
                ELSE CHOOSE w \in failed : \A v \in failed : w <= v
    IN [values |-> [w \in 1..Len(values) |->
                       IF w < stop THEN outcome[w].value ELSE values[w]],
        error |-> IF failed = {} THEN NoCliError ELSE outcome[stop].error]

(* resolve_nonduplicate_world_opts, main.rs 103-104 *)
NonduplicateEnter ==
    /\ call = "resolve_nonduplicate_world_opts"
    /\ cpc = "enter"
    /\ world_values' = [w \in 1..worlds |-> None]
    /\ current_world' = None
    /\ taken' = 0
    /\ cpc' = "loop"
    /\ UNCHANGED <<call, argv, world_opts, worlds, path, contents, files, parent,
                   index, tried, files0, returned>>
    /\ UNCHANGED statsVars

(* One turn of the for loop of resolve_nonduplicate_world_opts, main.rs 106-120 *)
NonduplicateStep ==
    /\ call = "resolve_nonduplicate_world_opts"
    /\ cpc = "loop"
    /\ taken < Len(world_opts)
    /\ taken' = taken + 1
    /\ LET world_opt == world_opts[taken + 1]
       IN IF world_opt.inner.variant = "World"
          THEN /\ current_world' = Some(world_opt.inner.index)
               /\ UNCHANGED <<world_values, cpc, returned>>
          ELSE IF current_world # None
          THEN IF current_world[1] < Len(world_values)
               THEN LET assigned == AssignNonduplicate(world_opt.inner.value,
                                        world_values[current_world[1] + 1],
                                        world_opt.source)
                    IN IF assigned.kind = "Ok"
                       THEN /\ world_values' =
                                 [world_values EXCEPT ![current_world[1] + 1] =
                                     assigned.value]
                            /\ UNCHANGED <<current_world, cpc, returned>>
                       ELSE /\ returned' = assigned
                            /\ cpc' = "done"
                            /\ UNCHANGED <<current_world, world_values>>
               ELSE /\ returned' = CliErr(IndexTooGreat(current_world[1]))
                    /\ cpc' = "done"
                    /\ UNCHANGED <<current_world, world_values>>
          ELSE LET assigned == AssignAll(world_values, world_opt.inner.value,
                                         world_opt.source)
               IN /\ world_values' = assigned.values
                  /\ IF assigned.error = NoCliError
                     THEN UNCHANGED <<cpc, returned>>
                     ELSE returned' = CliErr(assigned.error) /\ cpc' = "done"
                  /\ UNCHANGED current_world
    /\ UNCHANGED <<call, argv, world_opts, worlds, path, contents, files, parent,
                   index, tried, files0>>
    /\ UNCHANGED statsVars

(* The sources are dropped and the values returned, main.rs 122-123 *)
NonduplicateReturn ==
    /\ call = "resolve_nonduplicate_world_opts"
    /\ cpc = "loop"
    /\ taken = Len(world_opts)
    /\ returned' = CliOk([w \in 1..Len(world_values) |->
                            IF world_values[w] = None THEN None
                            ELSE Some(world_values[w][1].value)])
    /\ cpc' = "done"
    /\ UNCHANGED <<call, argv, world_opts, worlds, world_values, current_world,
                   taken, path, contents, files, parent, index, tried, files0>>
    /\ UNCHANGED statsVars

InitNonduplicate == InitWorldOpts("resolve_nonduplicate_world_opts")

NextNonduplicate ==
    \/ ParseArgs
    \/ NonduplicateEnter
    \/ NonduplicateStep
    \/ NonduplicateReturn

SpecNonduplicate == InitNonduplicate /\ [][NextNonduplicate]_vars

(* The flag values were all parsed *)
Parsed == cpc \notin {"idle", "parse"} /\ Len(world_opts) = Len(argv)

(* Among the first n options some world is given two values *)
GivenTwice(opts, n, count) ==
    \E w \in 0..(count - 1) : Len(GivenTo(opts, n, w)) > 1

(* C22: resolve_nonduplicate_world_opts returns Ok exactly when no world is *)
(* given a second value, by a value for all worlds or by one under a world  *)
(* specifier, and no value is given under a specifier >= worlds; Ok holds   *)
(* for each world its one value or none; the first option that gives a      *)
(* world a second value ends in an error that names that option and the     *)
(* option that gave the world its value.                                    *)
C22_OneValuePerWorld ==
    LET all == Len(world_opts)
    IN /\ cpc = "loop" =>
             /\ ~GivenTwice(world_opts, taken, worlds)
             /\ ~OutOfRange(world_opts, taken, worlds)
       /\ (cpc = "done" /\ Parsed) =>
             (returned.kind = "Ok" <=>
                 /\ ~GivenTwice(world_opts, all, worlds)
                 /\ ~OutOfRange(world_opts, all, worlds))
       /\ returned.kind = "Ok" =>
             /\ Len(returned.value) = worlds
             /\ \A w \in 0..(worlds - 1) :
                   LET given == GivenTo(world_opts, all, w)
                   IN returned.value[w + 1] =
                        IF given = <<>> THEN None
                        ELSE Some(given[1].opt.inner.value)
       /\ returned.error.kind = "MultipleValues" =>
             /\ ~GivenTwice(world_opts, taken - 1, worlds)
             /\ ~OutOfRange(world_opts, taken - 1, worlds)
             /\ returned.error.source = world_opts[taken].source
             /\ \E w \in 0..(worlds - 1) :
                   LET given == GivenTo(world_opts, taken, w)
                   IN /\ Len(given) = 2
                      /\ given[2].at = taken
                      /\ returned.error.prior_source = given[1].opt.source
       /\ returned.error.kind = "IndexTooGreat" =>
             /\ ~GivenTwice(world_opts, taken - 1, worlds)
             /\ ~OutOfRange(world_opts, taken - 1, worlds)
             /\ OutOfRange(world_opts, taken, worlds)

C22_Witness ==
    /\ returned.error.kind = "MultipleValues"
    /\ worlds = MaxWorlds
    /\ argv = <<ArgWorld1, ArgA, ArgB>>
    /\ returned.error.source = ArgB
    /\ returned.error.prior_source = ArgA

----------------------------------------------------------------------------
(* create_seedfile, main.rs 741-765.  A file name is a sequence of          *)
(* characters; the folder of the path is kept as `parent`, whether it is    *)
(* there.                                                                   *)

(* The place of the last dot of a file name, 0 if it has none *)
LastDot(name) ==
    LET dots == {n \in 1..Len(name) : name[n] = "."}
    IN IF dots = {} THEN 0 ELSE CHOOSE n \in dots : \A m \in dots : m <= n

(* Path::file_stem: the name up to its last dot; all of it when it has no   *)
(* dot or its only dot comes first                                          *)
FileStem(name) ==
    IF LastDot(name) <= 1 THEN name ELSE SubSeq(name, 1, LastDot(name) - 1)

(* Path::extension: what follows the last dot, None when file_stem is the   *)
(* whole name                                                               *)
Extension(name) ==
    IF LastDot(name) <= 1 THEN None
    ELSE Some(SubSeq(name, LastDot(name) + 1, Len(name)))

(* PathBuf::set_extension on a file name: the name is cut back to its stem  *)
(* and the extension, if not empty, put after a dot                         *)
SetExtension(name, extension) ==
    FileStem(name) \o (IF extension = <<>> THEN <<>> ELSE <<".">> \o extension)

(* SeedfileName as it would be with the counter left out *)
SeedfileNameNoIndex(name, i) ==
    SetExtension(FileStem(name),
                 IF Extension(name) = None THEN <<>> ELSE Extension(name)[1])

(* The file name of one turn of the loop, main.rs 744-750 *)
SeedfileName(name, i) ==
    LET filename == FileStem(name)
                    \o (IF i > 0 THEN <<"_">> \o Decimal(i) ELSE <<>>)
        extension == IF Extension(name) = None THEN <<>> ELSE Extension(name)[1]
    IN SetExtension(filename, extension)

(* The names stem, stem_1, stem_2, ... with the extension of the path *)
NumberedName(name, i) ==
    FileStem(name)
    \o (IF i > 0 THEN <<"_">> \o Decimal(i) ELSE <<>>)
    \o (IF Extension(name) = None THEN <<>> ELSE <<".">> \o Extension(name)[1])

MaxFiles == 2
MaxIndex == 3

PathSeedW == <<"s", ".", "w">>
PathSeed == <<"s">>
PathHidden == <<".", "h">>
PathDotted == <<"a", ".", "b", ".", "w">>
Paths == {PathSeedW, PathSeed, PathHidden, PathDotted}

OldText == <<"o", "l", "d">>
NewText == <<"n", "w">>

(* The names the seed folder may hold at the start *)
Candidates(name) ==
    {SeedfileName(name, i) : i \in 0..MaxFiles}
    \cup {NumberedName(name, i) : i \in 0..MaxFiles}

InitSeedfile ==
    /\ StatsIdle
    /\ call = "create_seedfile"
    /\ cpc = "open"
    /\ argv = <<>>
    /\ world_opts = <<>>
    /\ worlds = 0
    /\ world_values = <<>>
    /\ current_world = None
    /\ taken = 0
    /\ path \in Paths
    /\ contents = NewText
    /\ parent \in BOOLEAN
    /\ files \in UNION {[K -> {OldText}] :
                           K \in {K \in SUBSET Candidates(path) :
                                    /\ Cardinality(K) <= MaxFiles
                                    /\ ~parent => K = {}}}
    /\ index = 0
    /\ tried = <<>>
    /\ files0 = files
    /\ returned = NotReturned

(* io::Error, by its kind *)
IoError(kind) == [kind |-> kind, index |-> 0, source |-> <<>>, prior_source |-> <<>>]

(* The name this turn of the loop opens *)
Opening == SeedfileName(path, index)

(* The file with this name and this text is put into the folder *)
WithFile(folder, name, text) ==
    [n \in DOMAIN folder \cup {name} |-> IF n = name THEN text ELSE folder[n]]

(* What keeps its value in every turn of create_seedfile *)
SeedfileLocals == <<call, argv, world_opts, worlds, world_values, current_world,
                    taken, path, contents, files0>>

(* create_new(true) makes the file, write_all writes it: Ok(path) *)
OpenCreated ==
    /\ call = "create_seedfile" /\ cpc = "open"
    /\ parent
    /\ Opening \notin DOMAIN files
    /\ tried' = Append(tried, [name |-> Opening, index |-> index])
    /\ files' = WithFile(files, Opening, contents)
    /\ returned' = CliOk(Opening)
    /\ cpc' = "done"
    /\ UNCHANGED <<parent, index>>
    /\ UNCHANGED SeedfileLocals
    /\ UNCHANGED statsVars

(* create_new(true) makes the file, write_all fails: the file is left with  *)
(* a part of the text, main.rs 757                                          *)
OpenCreatedWriteFails ==
    /\ call = "create_seedfile" /\ cpc = "open"
    /\ parent
    /\ Opening \notin DOMAIN files
    /\ tried' = Append(tried, [name |-> Opening, index |-> index])
    /\ \E n \in 0..(Len(contents) - 1) :
          files' = WithFile(files, Opening, SubSeq(contents, 1, n))
    /\ returned' = CliErr(IoError("WriteFailed"))
    /\ cpc' = "done"
    /\ UNCHANGED <<parent, index>>
    /\ UNCHANGED SeedfileLocals
    /\ UNCHANGED statsVars

(* OpenAlreadyExists as it would be if the counter were not raised *)
OpenAlreadyExistsSameIndex ==
    /\ call = "create_seedfile" /\ cpc = "open"
    /\ parent
    /\ Opening \in DOMAIN files
    /\ Len(tried) < MaxIndex
    /\ tried' = Append(tried, [name |-> Opening, index |-> index])
    /\ UNCHANGED <<files, parent, returned, cpc, index>>
    /\ UNCHANGED SeedfileLocals
    /\ UNCHANGED statsVars

(* ErrorKind::AlreadyExists: index += 1, main.rs 760 *)
OpenAlreadyExists ==
    /\ call = "create_seedfile" /\ cpc = "open"
    /\ parent
    /\ Opening \in DOMAIN files
    /\ index < MaxIndex
    /\ tried' = Append(tried, [name |-> Opening, index |-> index])
    /\ index' = index + 1
    /\ UNCHANGED <<files, parent, returned, cpc>>
    /\ UNCHANGED SeedfileLocals
    /\ UNCHANGED statsVars

(* ErrorKind::NotFound: create_dir_all makes the folder, the loop goes on   *)
(* with the same index, main.rs 761                                         *)
OpenNotFound ==
    /\ call = "create_seedfile" /\ cpc = "open"
    /\ ~parent
    /\ tried' = Append(tried, [name |-> Opening, index |-> index])
    /\ parent' = TRUE
    /\ UNCHANGED <<files, index, returned, cpc>>
    /\ UNCHANGED SeedfileLocals
    /\ UNCHANGED statsVars

(* ErrorKind::NotFound and create_dir_all fails: its error is returned *)
OpenNotFoundDirFails ==
    /\ call = "create_seedfile" /\ cpc = "open"
    /\ ~parent
    /\ tried' = Append(tried, [name |-> Opening, index |-> index])
    /\ returned' = CliErr(IoError("CreateDirFailed"))
    /\ cpc' = "done"
    /\ UNCHANGED <<files, parent, index>>
    /\ UNCHANGED SeedfileLocals
    /\ UNCHANGED statsVars

(* open fails with another kind of error: it is returned, main.rs 762 *)
OpenOtherError ==
    /\ call = "create_seedfile" /\ cpc = "open"
    /\ tried' = Append(tried, [name |-> Opening, index |-> index])
    /\ returned' = CliErr(IoError("Other"))
    /\ cpc' = "done"
    /\ UNCHANGED <<files, parent, index>>
    /\ UNCHANGED SeedfileLocals
    /\ UNCHANGED statsVars

NextSeedfile ==
    \/ OpenCreated
    \/ OpenCreatedWriteFails
    \/ OpenAlreadyExists
    \/ OpenNotFound
    \/ OpenNotFoundDirFails
    \/ OpenOtherError

SpecSeedfile == InitSeedfile /\ [][NextSeedfile]_vars

(* The files the folder held at the start are all there, as they were *)
OldFilesKept ==
    \A name \in DOMAIN files0 : name \in DOMAIN files /\ files[name] = files0[name]

(* The least counter whose numbered name was free at the start *)
FirstFree ==
    CHOOSE i \in 0..(MaxFiles + 1) :
        /\ NumberedName(path, i) \notin DOMAIN files0
        /\ \A j \in 0..(i - 1) : NumberedName(path, j) \in DOMAIN files0

(* C23 as stated: no file that exists is changed; the names opened are      *)
(* stem, stem_1, stem_2, ... in this order, a name being opened again only  *)
(* after the folder was missing; Ok returns the first of these names that   *)
(* was free, now holding the contents; an error of open or of              *)
(* create_dir_all leaves the files as they were.                            *)
C23_Original ==
    /\ OldFilesKept
    /\ \A k \in 1..Len(tried) :
          /\ tried[k].name = NumberedName(path, tried[k].index)
          /\ k > 1 => \/ tried[k].index = tried[k - 1].index + 1
                      \/ tried[k].index = tried[k - 1].index /\ k = 2 /\ parent
    /\ returned.kind = "Ok" =>
          /\ returned.value = NumberedName(path, FirstFree)
          /\ files = WithFile(files0, returned.value, contents)
    /\ (returned.kind = "Err" /\ returned.error.kind # "WriteFailed") =>
          files = files0

(* A path whose numbered names are what the loop opens: set_extension cuts  *)
(* nothing off the stem                                                     *)
PlainStem(name) ==
    \A i \in 0..MaxIndex : SeedfileName(name, i) = NumberedName(name, i)

(* C23, what holds: no file that exists is changed or cut; Ok returns a     *)
(* name that was free, now holding the contents, and nothing else is new;   *)
(* the folder is made when missing and the same name opened again; an       *)
(* error of open or of create_dir_all leaves the files as they were; and    *)
(* for a path with a stem without a dot the names are stem, stem_1, ... in  *)
(* order and Ok returns the first that was free.                            *)
C23_NeverOverwrites ==
    /\ OldFilesKept
    /\ \A k \in 1..Len(tried) :
          /\ tried[k].name = SeedfileName(path, tried[k].index)
          /\ PlainStem(path) => tried[k].name = NumberedName(path, tried[k].index)
          /\ k > 1 => \/ tried[k].index = tried[k - 1].index + 1
                      \/ tried[k].index = tried[k - 1].index /\ k = 2 /\ parent
    /\ returned.kind = "Ok" =>
          /\ returned.value \notin DOMAIN files0
          /\ files = WithFile(files0, returned.value, contents)
          /\ PlainStem(path) => returned.value = NumberedName(path, FirstFree)
    /\ (returned.kind = "Err" /\ returned.error.kind # "WriteFailed") =>
          files = files0

(* The stem has a dot: the counter is cut off again and the name that       *)
(* exists is opened over and over                                           *)
C23_Witness ==
    /\ path = PathDotted
    /\ index = MaxIndex
    /\ cpc = "open"
    /\ \A k \in 1..Len(tried) : tried[k].name = <<"a", ".", "w">>
    /\ NumberedName(path, 1) \notin DOMAIN files

====
